---- MODULE Spec2Model ----
(***************************************************************************)
(* LeatherPatcher: pedal-driven stepper controller (Arduino sketch).       *)
(* The model follows src/LeatherPatcher.ino: setup() gives Init, one call  *)
(* of loop() is one step.  Time is the value millis() returns, in ms.      *)
(* The AccelStepper and RunningAverage libraries are collaborators that    *)
(* the sketch uses through their calls; they are modelled by contract.     *)
(***************************************************************************)
EXTENDS Integers, Sequences, FiniteSets, TLC

\* ------------------------------------------------------------------ bounds
\* Last millis() value a run explores.
MaxTime == 800
\* Running-average window explored (the sketch configures 8).
ANALOG_FILTER_SAMPLES == 2
\* Largest virtual position explored, in whole steps.
MaxVirtualSteps == 45
\* Largest number of pulses the generator emits in a run.
MaxPulses == 1

\* -------------------------------------------------- USER CONFIGURATION
ANALOG_MIN_COUNTS == 10
ANALOG_MAX_COUNTS == 1010
ANALOG_DEADBAND_COUNTS == 20
HOLD_BAND_COUNTS == 60
CONTROL_HZ == 100
INPUT_CURVE == 2
LOG_CURVE_K == 20
MAX_SPEED_SPS == 4000
DISABLE_DELAY_MS == 100
\* the enforced minimum of the arming delay: max((int)ARM_DELAY_MS, 250)
ARM_DELAY_FLOOR == 250
\* delay(250) in setup(): millis() when loop() first runs
SETUP_DELAY_MS == 250
\* float u times 1023 in the control tick
ADC_FULL_SCALE == 1023

controlInterval == 1000 \div CONTROL_HZ

\* pin levels
HIGH == TRUE
LOW == FALSE

\* Raw pedal samples analogRead() returns in the model: at the deadband
\* threshold, inside the hold band, full press.
Samples == {20, 60, 1023}
\* Advance of millis() between two calls of loop().
DtSet == {0, 50, 250}
\* Configured arming delays: below the floor, and the default.
ArmDelays == {100, 500}

VARIABLES
  ARM_DELAY_MS,       \* configuration: #define ARM_DELAY_MS
  ANALOG_REVERSED,    \* configuration: #define ANALOG_REVERSED
  now,                \* millis() as read by the last loop()
  rawADC,             \* the last raw sample
  filter,             \* RunningAverage buffer, oldest sample first
  armed, armStart, disableStart,
  lastControlUpdate,
  lastLED, ledState,
  enablePin,          \* level of ENABLE_PIN (HIGH = driver disabled)
  ledPin,             \* level of LED_PIN
  virtualPos,         \* static double virtualPos, in 1/1000 step
  stepper,            \* AccelStepper: [pos, target]
  inDeadband, inHold, running,   \* loop()'s flags in the last iteration
  calls,              \* stepper calls made by the last iteration, in order
  zone,               \* history: zone classified by the most recent control tick
  driven,             \* history: a HOLD or THROTTLE tick has happened
  quietSince,         \* history: millis() of the first sample of the current
                      \* run of raw samples <= deadband (0: none)
  stopSince,          \* history: millis() of the first tick of the current run
                      \* of STOP ticks (0: the last tick was not STOP)
  cancelled,          \* history: a HOLD or THROTTLE tick has cancelled a
                      \* pending disable
  probe               \* measurement: the call of a helper function under
                      \* study with its result, or the tick count of a run

vars == <<ARM_DELAY_MS, ANALOG_REVERSED, now, rawADC, filter, armed, armStart,
          disableStart, lastControlUpdate, lastLED, ledState, enablePin,
          ledPin, virtualPos, stepper, inDeadband, inHold, running, calls,
          zone, driven, quietSince, stopSince, cancelled, probe>>

\* what loop() and setup() read and write: all but the measurement
loopVars == <<ARM_DELAY_MS, ANALOG_REVERSED, now, rawADC, filter, armed,
              armStart, disableStart, lastControlUpdate, lastLED, ledState,
              enablePin, ledPin, virtualPos, stepper, inDeadband, inHold,
              running, calls, zone, driven, quietSince, stopSince, cancelled>>

Max(a, b) == IF a > b THEN a ELSE b

\* (int)x on the ATmega328P: int is 16 bits wide
ToInt16(x) ==
  LET m == x % 65536 IN IF m >= 32768 THEN m - 65536 ELSE m

\* ------------------------------------------------- RunningAverage (library)
RECURSIVE SeqSum(_)
SeqSum(s) == IF s = <<>> THEN 0 ELSE Head(s) + SeqSum(Tail(s))

\* filter.addValue(x): the buffer is full after setup(), the oldest sample goes
addValue(buf, x) == Append(Tail(buf), x)

\* (int)filter.getAverage()
getAverage(buf) == SeqSum(buf) \div Len(buf)

\* ------------------------------------------------------------ normalizeADC
CalSpan == ANALOG_MAX_COUNTS - ANALOG_MIN_COUNTS

\* normalizeADC(raw): the result u is returned as the numerator of u over CalSpan
normalizeADC(raw) ==
  LET r1 == IF raw < ANALOG_MIN_COUNTS THEN ANALOG_MIN_COUNTS ELSE raw
      r2 == IF r1 > ANALOG_MAX_COUNTS THEN ANALOG_MAX_COUNTS ELSE r1
      n  == r2 - ANALOG_MIN_COUNTS
      n2 == IF ANALOG_REVERSED THEN CalSpan - n ELSE n
      n3 == IF n2 < 0 THEN 0 ELSE n2
  IN  IF n3 > CalSpan THEN CalSpan ELSE n3

\* Mutant: the reversal of the sense is left out.
normalizeWith_noReverse(raw, mn, mx, rev) ==
  LET r1 == IF raw < mn THEN mn ELSE raw
      r2 == IF r1 > mx THEN mx ELSE r1
      n0 == IF mx < mn THEN mn - r2 ELSE r2 - mn
      d0 == IF mx < mn THEN mn - mx ELSE mx - mn
      n2 == IF n0 < 0 THEN 0 ELSE n0
  IN  IF d0 = 0 THEN [nan |-> TRUE, num |-> 0, den |-> 0]
      ELSE [nan |-> FALSE, num |-> IF n2 > d0 THEN d0 ELSE n2, den |-> d0]

\* normalizeADC(raw) with the #defines ANALOG_MIN_COUNTS, ANALOG_MAX_COUNTS
\* and ANALOG_REVERSED as arguments.  The float result u is the fraction
\* num / den with den > 0.  With mn = mx the quotient is 0.0 / 0.0, a NaN:
\* 1.0 - NaN is NaN, both clamp tests are false for it and it is returned.
normalizeWith(raw, mn, mx, rev) ==
  LET r1 == IF raw < mn THEN mn ELSE raw
      r2 == IF r1 > mx THEN mx ELSE r1
      \* (float)(raw - mn) / (float)(mx - mn), the sign moved to the numerator
      n0 == IF mx < mn THEN mn - r2 ELSE r2 - mn
      d0 == IF mx < mn THEN mn - mx ELSE mx - mn
      n1 == IF rev THEN d0 - n0 ELSE n0
      n2 == IF n1 < 0 THEN 0 ELSE n1
  IN  IF d0 = 0 THEN [nan |-> TRUE, num |-> 0, den |-> 0]
      ELSE [nan |-> FALSE, num |-> IF n2 > d0 THEN d0 ELSE n2, den |-> d0]

\* (int)(u * 1023) for the result of normalizeWith.  The conversion of a NaN
\* to int is undefined: any int may come out, and the least, zero and the
\* greatest stand for them.
scaledOutcomes(u) ==
  IF u.nan THEN {-32768, 0, 32767}
  ELSE {(u.num * ADC_FULL_SCALE) \div u.den}

\* int scaledADC = (int)(u * 1023)
scaledADC(u) == (u * ADC_FULL_SCALE) \div CalSpan

\* --------------------------------------------------------------- applyCurve
\* Fixed point: u and the curve's result in 1/10000; log2 in 1/1024.
FixOne == 10000
LogBits == 10

RECURSIVE Pow2(_)
Pow2(k) == IF k = 0 THEN 1 ELSE 2 * Pow2(k - 1)

RECURSIVE Log2Int(_)
Log2Int(x) == IF x >= 2 * FixOne THEN 1 + Log2Int(x \div 2) ELSE 0

RECURSIVE Mantissa(_)
Mantissa(x) == IF x >= 2 * FixOne THEN Mantissa(x \div 2) ELSE x

RECURSIVE FracBits(_, _)
FracBits(x, k) ==
  IF k = 0 THEN 0
  ELSE LET y == (x * x) \div FixOne
       IN  IF y >= 2 * FixOne
           THEN Pow2(k - 1) + FracBits(y \div 2, k - 1)
           ELSE FracBits(y, k - 1)

\* log(x) up to the constant factor that the quotient in applyCurve cancels
Log2Fx(x) == Log2Int(x) * Pow2(LogBits) + FracBits(Mantissa(x), LogBits)

\* Mutant: the logarithmic curve is not divided by log(1.0 + k).
applyCurveOf_raw(kind, k, u) ==
  CASE kind = 1 -> (u * u) \div FixOne
    [] kind = 2 -> (Log2Fx(FixOne + k * u) * FixOne) \div Pow2(LogBits)
    [] OTHER -> u

\* applyCurve(u) with the #defines INPUT_CURVE and LOG_CURVE_K as arguments,
\* u in 1/10000
applyCurveOf(kind, k, u) ==
  CASE kind = 1 -> (u * u) \div FixOne
    [] kind = 2 ->
         (Log2Fx(FixOne + k * u) * FixOne) \div Log2Fx(FixOne + k * FixOne)
    [] OTHER -> u

\* applyCurve(u), u in 1/10000
applyCurve(u) == applyCurveOf(INPUT_CURVE, LOG_CURVE_K, u)

\* Mutant: the target speed is added whole, not its share of one tick.
tickAdvance_perSecond(u) ==
  LET curved == applyCurve((u * FixOne) \div CalSpan)
  IN  ((curved * MAX_SPEED_SPS) \div FixOne) * 1000

\* targetSpeed / CONTROL_HZ for the normalized input u (numerator over
\* CalSpan), in 1/1000 step
tickAdvance(u) ==
  LET curved == applyCurve((u * FixOne) \div CalSpan)
  IN  (((curved * MAX_SPEED_SPS) \div CONTROL_HZ) * 1000) \div FixOne

\* ------------------------------------------------- AccelStepper (library)
\* The generator by its contract: a target and an achieved position.
\* stepper.moveTo(x)
stepperMoveTo(s, x) == [s EXCEPT !.target = x]

\* stepper.stop(): pending motion is cancelled
stepperStop(s) == [s EXCEPT !.target = s.pos]

\* stepper.run(): at most one pulse towards the target, when one is due
stepperRun(s, pulse) ==
  IF pulse /\ s.pos < s.target /\ s.pos < MaxPulses
  THEN [s EXCEPT !.pos = s.pos + 1]
  ELSE s

\* ---------------------------------------------------------------- updateLED
\* Mutant: the unarmed blink toggles every 250 ms, like the hold blink.
updateLED_fast(isArmed, t, run, hold, dead) ==
  IF (~isArmed) \/ (~run /\ hold)
  THEN IF t - lastLED >= 250
       THEN [ledState |-> ~ledState, lastLED |-> t, ledPin |-> ~ledState]
       ELSE [ledState |-> ledState, lastLED |-> lastLED, ledPin |-> ledPin]
  ELSE IF run
  THEN [ledState |-> ledState, lastLED |-> lastLED, ledPin |-> HIGH]
  ELSE IF dead
  THEN LET tt == t % 1000
       IN  [ledState |-> ledState, lastLED |-> lastLED,
            ledPin |-> (tt < 100) \/ (tt >= 200 /\ tt < 300)]
  ELSE [ledState |-> ledState, lastLED |-> lastLED, ledPin |-> LOW]

\* updateLED(now, running, inHold, inDeadband), reading the global armed as
\* it is when the call is made: the new ledState, lastLED and LED_PIN level
updateLED(isArmed, t, run, hold, dead) ==
  IF ~isArmed
  THEN IF t - lastLED >= 500
       THEN [ledState |-> ~ledState, lastLED |-> t, ledPin |-> ~ledState]
       ELSE [ledState |-> ledState, lastLED |-> lastLED, ledPin |-> ledPin]
  ELSE IF run
  THEN [ledState |-> ledState, lastLED |-> lastLED, ledPin |-> HIGH]
  ELSE IF hold
  THEN IF t - lastLED >= 250
       THEN [ledState |-> ~ledState, lastLED |-> t, ledPin |-> ~ledState]
       ELSE [ledState |-> ledState, lastLED |-> lastLED, ledPin |-> ledPin]
  ELSE IF dead
  THEN LET tt == t % 1000
       IN  [ledState |-> ledState, lastLED |-> lastLED,
            ledPin |-> (tt < 100) \/ (tt >= 200 /\ tt < 300)]
  ELSE [ledState |-> ledState, lastLED |-> lastLED, ledPin |-> LOW]

\* ------------------------------------------------------------ safety: arming
\* Mutant: the 250 ms floor is left out.
armHold_noFloor == ToInt16(ARM_DELAY_MS)

\* max((int)ARM_DELAY_MS, 250)
armHold == Max(ToInt16(ARM_DELAY_MS), ARM_DELAY_FLOOR)

\* Mutant: a sample above the deadband leaves the arm timer running.
armingStep_noReset(raw, t) ==
  IF armStart = 0
  THEN [armed |-> FALSE,
        armStart |-> IF raw <= ANALOG_DEADBAND_COUNTS THEN t ELSE 0]
  ELSE IF raw <= ANALOG_DEADBAND_COUNTS /\ t - armStart >= armHold
  THEN [armed |-> TRUE, armStart |-> armStart]
  ELSE [armed |-> FALSE, armStart |-> armStart]

\* Mutant: the arm timer is restarted at every sample at or below the deadband.
armingStep_restart(raw, t) ==
  IF raw <= ANALOG_DEADBAND_COUNTS
  THEN IF armStart # 0 /\ t - armStart >= armHold
       THEN [armed |-> TRUE, armStart |-> armStart]
       ELSE [armed |-> FALSE, armStart |-> t]
  ELSE [armed |-> FALSE, armStart |-> 0]

\* if (rawADC <= ANALOG_DEADBAND_COUNTS) { ... } else { armStart = 0; }
\* at time t: the new armed and armStart
armingStep(raw, t) ==
  IF raw <= ANALOG_DEADBAND_COUNTS
  THEN IF armStart = 0
       THEN [armed |-> FALSE, armStart |-> t]
       ELSE IF t - armStart >= armHold
       THEN [armed |-> TRUE, armStart |-> armStart]
       ELSE [armed |-> FALSE, armStart |-> armStart]
  ELSE [armed |-> FALSE, armStart |-> 0]

\* Mutant: the arming test runs in every iteration, so a pressed pedal disarms.
safetyStep_always(raw, t) == armingStep(raw, t)

\* if (!armed) { ... }: the arming test runs only while unarmed
safetyStep(raw, t) ==
  IF ~armed THEN armingStep(raw, t)
  ELSE [armed |-> armed, armStart |-> armStart]

\* Mutant: the active-low enable line is written LOW.
unarmedEnable_low == LOW

\* digitalWrite(ENABLE_PIN, HIGH) of the unarmed branch
unarmedEnable == HIGH

\* ---------------------------------------------------------- zone of a tick
\* Mutant: the threshold tests are strict, the value at a threshold goes up.
classify_strict(scaled) ==
  IF scaled < ANALOG_DEADBAND_COUNTS THEN "STOP"
  ELSE IF scaled < HOLD_BAND_COUNTS THEN "HOLD"
  ELSE "THROTTLE"

\* if (scaledADC <= ANALOG_DEADBAND_COUNTS) ... else if (scaledADC <=
\* HOLD_BAND_COUNTS) ... else ...
classify(scaled) ==
  IF scaled <= ANALOG_DEADBAND_COUNTS THEN "STOP"
  ELSE IF scaled <= HOLD_BAND_COUNTS THEN "HOLD"
  ELSE "THROTTLE"

\* The two-zone sketch (src/unnamed/part_000).  Its normalizeADC divides by
\* ANALOG_MAX, so u is carried as the numerator of u over ANALOG_MAX and
\* u * ANALOG_MAX is that numerator.
ANALOG_MAX == 1023

\* applyDeadband(u)
applyDeadband(u) == IF u <= ANALOG_DEADBAND_COUNTS THEN 0 ELSE u

\* u = applyDeadband(u); if (u == 0.0) { ...stop... } else { ...run... }
classifyTwoZone(u) == IF applyDeadband(u) = 0 THEN "STOP" ELSE "THROTTLE"

\* Mutant: the driver is cut at the first STOP tick, without the hold delay.
stopTick_noDelay(t) ==
  [disableStart |-> IF disableStart = 0 THEN t ELSE disableStart,
   enablePin |-> HIGH, stop |-> TRUE]

\* Mutant: a STOP tick that finds the delay not yet elapsed restarts the timer.
stopTick_restart(t) ==
  IF disableStart = 0
  THEN [disableStart |-> t, enablePin |-> enablePin, stop |-> FALSE]
  ELSE IF t - disableStart >= DISABLE_DELAY_MS
  THEN [disableStart |-> disableStart, enablePin |-> HIGH, stop |-> TRUE]
  ELSE [disableStart |-> t, enablePin |-> enablePin, stop |-> FALSE]

\* Mutant: the delay test is strict.
stopTick_strict(t) ==
  IF disableStart = 0
  THEN [disableStart |-> t, enablePin |-> enablePin, stop |-> FALSE]
  ELSE IF t - disableStart > DISABLE_DELAY_MS
  THEN [disableStart |-> disableStart, enablePin |-> HIGH, stop |-> TRUE]
  ELSE [disableStart |-> disableStart, enablePin |-> enablePin, stop |-> FALSE]

\* Zone 1 at time t: the new disableStart and ENABLE_PIN level, and whether
\* stepper.stop() is called
stopTick(t) ==
  IF disableStart = 0
  THEN [disableStart |-> t, enablePin |-> enablePin, stop |-> FALSE]
  ELSE IF t - disableStart >= DISABLE_DELAY_MS
  THEN [disableStart |-> disableStart, enablePin |-> HIGH, stop |-> TRUE]
  ELSE [disableStart |-> disableStart, enablePin |-> enablePin, stop |-> FALSE]

\* Mutant: the hold band re-enables the driver but keeps the disable timer.
driveTick_keepTimer(z) ==
  [disableStart |-> IF z = "HOLD" THEN disableStart ELSE 0, enablePin |-> LOW]

\* Zones 2 and 3: disableStart = 0; digitalWrite(ENABLE_PIN, LOW);
driveTick(z) == [disableStart |-> 0, enablePin |-> LOW]

\* Mutant: the virtual position is integrated in the hold band as well.
nextVirtualPos_inHold(z, u) ==
  IF z \in {"HOLD", "THROTTLE"} THEN virtualPos + tickAdvance(u)
  ELSE virtualPos

\* Zone 3: virtualPos += targetSpeed / CONTROL_HZ; a static local of loop()
\* that no other branch touches: its value after an iteration whose tick
\* classified z ("NONE": no tick) with the normalized input u
nextVirtualPos(z, u) ==
  IF z = "THROTTLE" THEN virtualPos + tickAdvance(u) ELSE virtualPos

\* Mutant: the hold band hands the virtual position to the generator.
holdTarget_virtual(s) == virtualPos \div 1000

\* Zone 2: the argument of stepper.moveTo(stepper.currentPosition())
holdTarget(s) == s.pos

\* Mutant: the control tick runs in every iteration.
tickDue_always(t) == TRUE

\* Mutant: the elapsed-time test lets the tick run one millisecond early.
tickDue_early(t) == t - lastControlUpdate >= controlInterval - 1

\* if (now - lastControlUpdate >= controlInterval)
tickDue(t) == t - lastControlUpdate >= controlInterval

\* Mutant: the sample is added to the filter inside the control-tick block.
sampleFilter_onTick(tick, raw) ==
  IF tick THEN addValue(filter, raw) ELSE filter

\* int rawADC = analogRead(ANALOG_PIN); filter.addValue(rawADC); at the top
\* of loop(), before the arming branch and the control-tick test: the new
\* buffer, whether or not the control tick fires
sampleFilter(tick, raw) == addValue(filter, raw)

\* Mutant: stepper.run() sits inside the control-tick block.
runCalls_inTick(tick) == IF tick THEN <<"run">> ELSE <<>>

\* stepper.run() at the end of the armed loop(), whether or not the control
\* tick fired: the calls it adds
runCalls(tick) == <<"run">>

\* ------------------------------------------------------------------- setup
\* No measurement is taken.
NoProbe == [fn |-> "none"]

\* the state setup() leaves, for a build whose ARM_DELAY_MS is one of delays
SetupWith(delays) ==
  /\ ARM_DELAY_MS \in delays
  /\ ANALOG_REVERSED \in BOOLEAN
  /\ now = SETUP_DELAY_MS
  /\ filter \in [1..ANALOG_FILTER_SAMPLES -> Samples]
  /\ rawADC = filter[ANALOG_FILTER_SAMPLES]
  /\ armed = FALSE /\ armStart = 0 /\ disableStart = 0
  /\ lastControlUpdate = 0
  /\ lastLED = 0 /\ ledState = FALSE
  /\ enablePin = HIGH
  /\ ledPin = LOW
  /\ virtualPos = 0
  /\ stepper = [pos |-> 0, target |-> 0]
  /\ inDeadband = FALSE /\ inHold = FALSE /\ running = FALSE
  /\ calls = <<>>
  /\ zone = "NONE"
  /\ driven = FALSE
  /\ quietSince = 0
  /\ stopSince = 0
  /\ cancelled = FALSE

\* the state setup() leaves
Setup == SetupWith(ArmDelays)

Init == Setup /\ probe = NoProbe

\* -------------------------------------------------------------------- loop
\* loop() while !armed: the arming branch, which returns early
LoopUnarmed(dt, raw) ==
  LET t == now + dt
      a == safetyStep(raw, t)
      led == updateLED(a.armed, t, FALSE, FALSE, FALSE)
  IN  /\ ~armed
      /\ now' = t
      /\ rawADC' = raw
      /\ filter' = sampleFilter(FALSE, raw)
      /\ armed' = a.armed
      /\ armStart' = a.armStart
      /\ stepper' = stepperStop(stepper)
      /\ calls' = <<"stop">>
      /\ enablePin' = unarmedEnable
      /\ ledState' = led.ledState /\ lastLED' = led.lastLED
      /\ ledPin' = led.ledPin
      /\ inDeadband' = FALSE /\ inHold' = FALSE /\ running' = FALSE
      /\ quietSince' = IF raw <= ANALOG_DEADBAND_COUNTS
                       THEN (IF quietSince = 0 THEN t ELSE quietSince)
                       ELSE 0
      /\ UNCHANGED <<ARM_DELAY_MS, ANALOG_REVERSED, disableStart,
                     lastControlUpdate, virtualPos, zone, driven, stopSince,
                     cancelled>>

\* loop() while armed: the control tick when it is due, then stepper.run()
\* and updateLED()
LoopArmed(dt, raw, pulse) ==
  LET t == now + dt
      tick == tickDue(t)
      f == sampleFilter(tick, raw)
      filteredADC == getAverage(f)
      u == normalizeADC(filteredADC)
      z == IF tick THEN classify(scaledADC(u)) ELSE "NONE"
      st == stopTick(t)
      dr == driveTick(z)
      vp == nextVirtualPos(z, u)
      s1 == CASE z = "STOP" -> IF st.stop THEN stepperStop(stepper) ELSE stepper
              [] z = "HOLD" -> stepperMoveTo(stepper, holdTarget(stepper))
              [] z = "THROTTLE" -> stepperMoveTo(stepper, vp \div 1000)
              [] OTHER -> stepper
      c1 == CASE z = "STOP" -> IF st.stop THEN <<"stop">> ELSE <<>>
              [] z = "HOLD" -> <<"moveTo">>
              [] z = "THROTTLE" -> <<"moveTo">>
              [] OTHER -> <<>>
      a == safetyStep(raw, t)
      rc == runCalls(tick)
      led == updateLED(a.armed, t, z = "THROTTLE", z = "HOLD", z = "STOP")
  IN  /\ armed
      /\ now' = t
      /\ rawADC' = raw
      /\ filter' = f
      /\ lastControlUpdate' = IF tick THEN t ELSE lastControlUpdate
      /\ disableStart' = CASE z = "STOP" -> st.disableStart
                           [] z \in {"HOLD", "THROTTLE"} -> dr.disableStart
                           [] OTHER -> disableStart
      /\ enablePin' = CASE z = "STOP" -> st.enablePin
                        [] z \in {"HOLD", "THROTTLE"} -> dr.enablePin
                        [] OTHER -> enablePin
      /\ virtualPos' = vp
      /\ armed' = a.armed
      /\ armStart' = a.armStart
      /\ stepper' = IF rc # <<>> THEN stepperRun(s1, pulse) ELSE s1
      /\ calls' = c1 \o rc
      /\ inDeadband' = (z = "STOP")
      /\ inHold' = (z = "HOLD")
      /\ running' = (z = "THROTTLE")
      /\ ledState' = led.ledState /\ lastLED' = led.lastLED
      /\ ledPin' = led.ledPin
      /\ zone' = IF tick THEN z ELSE zone
      /\ driven' = (driven \/ z \in {"HOLD", "THROTTLE"})
      /\ stopSince' = CASE z = "STOP" -> IF stopSince = 0 THEN t ELSE stopSince
                        [] z \in {"HOLD", "THROTTLE"} -> 0
                        [] OTHER -> stopSince
      /\ cancelled' = (cancelled
                        \/ (z \in {"HOLD", "THROTTLE"} /\ stopSince # 0))
      /\ UNCHANGED <<ARM_DELAY_MS, ANALOG_REVERSED, quietSince>>

\* One iteration of loop() inside the explored horizon.
StepUnarmed(dt, raw) ==
  /\ now + dt <= MaxTime
  /\ LoopUnarmed(dt, raw)
  /\ UNCHANGED probe

StepArmed(dt, raw, pulse) ==
  /\ now + dt <= MaxTime
  /\ LoopArmed(dt, raw, pulse)
  /\ virtualPos' <= MaxVirtualSteps * 1000
  /\ UNCHANGED probe

Next ==
  \/ \E dt \in DtSet, raw \in Samples : StepUnarmed(dt, raw)
  \/ \E dt \in DtSet, raw \in Samples, pulse \in BOOLEAN :
        StepArmed(dt, raw, pulse)

Spec == Init /\ [][Next]_vars

\* The Arduino core calls loop() for ever and millis() keeps advancing: while
\* the controller waits to be armed, an iteration that reads a later millis()
\* always comes.
AdvanceUnarmed ==
  \E dt \in DtSet \ {0}, raw \in Samples : StepUnarmed(dt, raw)

SpecLive == Init /\ [][Next]_vars /\ WF_vars(AdvanceUnarmed)

\* ===================================================================
\* The helper functions on their own
\* ===================================================================
\* The controller rests in the state setup() leaves, with the shipped arming
\* delay; a helper is called once on an argument drawn from its domain.
SetupAtRest ==
  /\ Setup
  /\ ARM_DELAY_MS = 500
  /\ \A i \in DOMAIN filter : filter[i] = ANALOG_DEADBAND_COUNTS

\* every value (int)(u * 1023) can take
ScaledInputs == 0..ADC_FULL_SCALE

ClassifyArgs == [fn : {"classify"}, scaled : ScaledInputs]

\* the zone test of the control tick, in both sketches; it may be repeated
\* on the same input
CallClassify ==
  /\ probe.fn \in {"classify", "classified"}
  /\ probe' = [fn |-> "classified", scaled |-> probe.scaled,
               zone |-> classify(probe.scaled),
               zone2 |-> classifyTwoZone(probe.scaled)]
  /\ UNCHANGED loopVars

\* every value analogRead() and the running average can take
RawInputs == 0..ADC_FULL_SCALE

\* <<ANALOG_MIN_COUNTS, ANALOG_MAX_COUNTS>>: as shipped, the full ADC range,
\* a narrow pedal, inverted bounds, degenerate bounds
CalibPairs ==
  {<<ANALOG_MIN_COUNTS, ANALOG_MAX_COUNTS>>, <<0, 1023>>, <<300, 700>>,
   <<ANALOG_MAX_COUNTS, ANALOG_MIN_COUNTS>>, <<512, 512>>}

NormalizeArgs ==
  [fn : {"normalizeADC"}, raw : RawInputs, cal : CalibPairs, rev : BOOLEAN]

\* u = normalizeADC(filteredADC); scaledADC = (int)(u * 1023); and the zone
\* the tick selects from it
CallNormalize ==
  /\ probe \in NormalizeArgs
  /\ LET u == normalizeWith(probe.raw, probe.cal[1], probe.cal[2], probe.rev)
     IN  \E sc \in scaledOutcomes(u) :
           probe' = [fn |-> "normalized", raw |-> probe.raw,
                     cal |-> probe.cal, rev |-> probe.rev, u |-> u,
                     inLoop |-> normalizeADC(probe.raw),
                     scaled |-> sc, zone |-> classify(sc)]
  /\ UNCHANGED loopVars

\* INPUT_CURVE: 0 = linear, 1 = quadratic, 2 = logarithmic
CurveKinds == {0, 1, 2}
\* LOG_CURVE_K: steep, as shipped, gentle
CurveKs == {1, LOG_CURVE_K, 100}

\* the normalized inputs the shipped calibration produces: n / CalSpan
CurveArgs ==
  [fn : {"applyCurve"}, kind : CurveKinds, k : CurveKs, n : 0..CalSpan]

\* curved = applyCurve(u), for u = n / CalSpan and for the next input above
CallCurve ==
  /\ probe \in CurveArgs
  /\ LET up == IF probe.n < CalSpan THEN probe.n + 1 ELSE probe.n
     IN  probe' = [fn |-> "curved", kind |-> probe.kind, k |-> probe.k,
                   n |-> probe.n,
                   out |-> applyCurveOf(probe.kind, probe.k,
                                        (probe.n * FixOne) \div CalSpan),
                   outUp |-> applyCurveOf(probe.kind, probe.k,
                                          (up * FixOne) \div CalSpan)]
  /\ UNCHANGED loopVars

InitFn ==
  SetupAtRest /\ probe \in ClassifyArgs \cup NormalizeArgs \cup CurveArgs

NextFn == CallClassify \/ CallNormalize \/ CallCurve

SpecFn == InitFn /\ [][NextFn]_vars

\* ===================================================================
\* A run at full throttle
\* ===================================================================
\* Number of consecutive full-throttle control ticks a run explores.
MaxRunTicks == 100

\* The pedal rests until the controller is armed and is then pressed fully
\* and held; loop() is called at the control rate or faster.  The
\* measurement counts the consecutive control ticks whose filtered input is
\* at full scale, and keeps the virtual position the count started from.
InitThrottle ==
  /\ SetupAtRest
  /\ ANALOG_REVERSED = FALSE
  /\ probe = [fn |-> "run", ticks |-> 0, base |-> 0]

RestUntilArmed ==
  /\ LoopUnarmed(ARM_DELAY_FLOOR, ANALOG_DEADBAND_COUNTS)
  /\ UNCHANGED probe

FullThrottle ==
  /\ probe.ticks < MaxRunTicks
  /\ \E dt \in {0, controlInterval}, pulse \in BOOLEAN :
        LoopArmed(dt, ADC_FULL_SCALE, pulse)
  /\ probe' =
       IF lastControlUpdate' = lastControlUpdate THEN probe
       ELSE IF running' /\ getAverage(filter') >= ANALOG_MAX_COUNTS
       THEN [fn |-> "run", ticks |-> probe.ticks + 1,
             base |-> IF probe.ticks = 0 THEN virtualPos ELSE probe.base]
       ELSE [fn |-> "run", ticks |-> 0, base |-> 0]

NextThrottle == RestUntilArmed \/ FullThrottle

SpecThrottle == InitThrottle /\ [][NextThrottle]_vars

\* ===================================================================
\* A working session after arming
\* ===================================================================
\* Last millis() value a working session explores.
MaxRunTime == 1250
\* Largest virtual position a working session explores, in whole steps.
MaxRunSteps == 80

\* The pedal rests until the controller is armed (at millis() = 1000 with
\* the shipped arming delay); after that loop() is called at irregular
\* intervals with any pedal samples.
InitRun ==
  /\ SetupAtRest
  /\ ANALOG_REVERSED = FALSE
  /\ probe = NoProbe

Work ==
  /\ \E dt \in DtSet, raw \in Samples, pulse \in BOOLEAN :
        /\ now + dt <= MaxRunTime
        /\ LoopArmed(dt, raw, pulse)
  /\ virtualPos' <= MaxRunSteps * 1000
  /\ UNCHANGED probe

NextRun == RestUntilArmed \/ Work

SpecRun == InitRun /\ [][NextRun]_vars

\* ===================================================================
\* loop() paced around the control interval
\* ===================================================================
\* Last millis() value explored with loop() paced around the control
\* interval.
MaxPacedTime == 1030

\* millis() advances between two calls of loop() by nothing, by one
\* millisecond less than the control interval, or by the control interval.
PacedDt == {0, controlInterval - 1, controlInterval}

\* The pedal rests until the controller is armed; after that loop() is
\* called with any pedal samples.  The measurement keeps millis() of the
\* first control tick after arming.
Paced ==
  /\ \E dt \in PacedDt, raw \in Samples, pulse \in BOOLEAN :
        /\ now + dt <= MaxPacedTime
        /\ LoopArmed(dt, raw, pulse)
  /\ probe' = IF probe = NoProbe /\ lastControlUpdate' # lastControlUpdate
              THEN [fn |-> "firstTick", at |-> now']
              ELSE probe

NextPaced == RestUntilArmed \/ Paced

SpecPaced == InitRun /\ [][NextPaced]_vars

\* ===================================================================
\* Waiting to be armed
\* ===================================================================
\* Last millis() value explored while the controller waits to be armed.
MaxBlinkTime == 1800

\* loop() is called at irregular intervals with any pedal samples; the run
\* ends when the controller arms.
WaitUnarmed ==
  /\ \E dt \in DtSet, raw \in Samples :
        now + dt <= MaxBlinkTime /\ LoopUnarmed(dt, raw)
  /\ UNCHANGED probe

SpecBlink == Init /\ [][WaitUnarmed]_vars

\* ===================================================================
\* Waiting to be armed with a long arming delay
\* ===================================================================
\* Configured arming delays around and above the largest 16-bit int: the
\* constants 32768 and 40000 have type long on the ATmega328P, and
\* (int)ARM_DELAY_MS keeps their low 16 bits.
LongArmDelays == {32767, 32768, 40000}

InitLong == SetupWith(LongArmDelays) /\ probe = NoProbe

SpecLong == InitLong /\ [][WaitUnarmed]_vars

\* ===================================================================
\* Properties
\* ===================================================================
Called(name) == \E i \in DOMAIN calls : calls[i] = name
CalledNext(name) == \E i \in DOMAIN calls' : calls'[i] = name
RunCount(c) == Cardinality({i \in DOMAIN c : c[i] = "run"})

\* The arming hold the documentation promises.
HoldMs == Max(ARM_DELAY_MS, 250)

\* C1: while UNARMED the driver is disabled (ENABLE pin HIGH), the virtual
\* position has not advanced and no target has been handed to the
\* generator, whatever the pedal sample, a full press included.
C1_UnarmedNoDrive ==
  ~armed => /\ enablePin = HIGH
            /\ virtualPos = 0
            /\ ~Called("moveTo")

C1_Witness ==
  ~armed /\ rawADC = 1023 /\ Called("stop") /\ now > SETUP_DELAY_MS

\* C2: the step that sets ARMED happens only when the arm timer was started
\* at least max(ARM_DELAY_MS, 250) ms earlier and every raw sample since the
\* timer was started was at or below the deadband.
C2_ArmOnlyAfterHold ==
  [][(~armed /\ armed') =>
       /\ armStart # 0
       /\ now' - armStart >= HoldMs
       /\ quietSince # 0 /\ quietSince <= armStart
       /\ rawADC' <= ANALOG_DEADBAND_COUNTS]_vars

C2_Witness ==
  armed /\ zone = "NONE" /\ ARM_DELAY_MS < 250 /\ now - armStart = 250

\* C3: in every step that sets ARMED, the raw sample that passed the arming
\* test, normalized and rescaled as the control tick does, is in the STOP
\* zone.
C3_ArmedAtStop ==
  [][(~armed /\ armed') =>
       classify(scaledADC(normalizeADC(rawADC'))) = "STOP"]_vars

\* C4: once ARMED is set it stays set.
C4_ArmedForever == [][armed => armed']_vars

C4_Witness ==
  armed /\ rawADC > ANALOG_DEADBAND_COUNTS /\ zone # "NONE"
        /\ now - armStart >= 2 * HoldMs

\* C5: while UNARMED a raw sample above the deadband sets the arm timer back
\* to unset, a running timer always dates from the first sample of the
\* current run of samples at or below the deadband, and ARMED is reached
\* only by a run that spans at least max(ARM_DELAY_MS, 250) ms.
C5_InterruptResets ==
  [][~armed =>
       /\ (rawADC' > ANALOG_DEADBAND_COUNTS =>
             armStart' = 0 /\ ~armed')
       /\ (armStart' # 0 => armStart' = quietSince')
       /\ (armed' => quietSince # 0 /\ now' - quietSince >= HoldMs)]_vars

C5_Witness ==
  /\ ~armed /\ armStart = 0 /\ rawADC > ANALOG_DEADBAND_COUNTS
  /\ filter[Len(filter) - 1] <= ANALOG_DEADBAND_COUNTS
  /\ now >= SETUP_DELAY_MS + 2 * HoldMs

\* The smallest advance of millis() between two iterations that advances it.
MinAdvance == CHOOSE d \in DtSet \ {0} : \A e \in DtSet \ {0} : d <= e

\* A run of quiet samples that starts early enough to reach the arming hold
\* before the last millis() value explored.
QuietRunInHorizon ==
  ~armed /\ quietSince # 0 /\ quietSince + HoldMs + MinAdvance <= MaxTime

\* C6: while the raw samples stay at or below the deadband and millis()
\* keeps advancing, the controller becomes ARMED, and it does so at the
\* first iteration that reads millis() at least max(ARM_DELAY_MS, 250) ms
\* after the iteration that started the run (and with it the arm timer).
C6_QuietArms ==
  /\ [][(~armed /\ quietSince # 0
           /\ rawADC' <= ANALOG_DEADBAND_COUNTS
           /\ now' - quietSince >= HoldMs) => armed']_vars
  /\ [][(~armed /\ armed') => now' - quietSince >= HoldMs]_vars
  /\ (QuietRunInHorizon ~> (armed \/ quietSince = 0))

C6_Witness ==
  /\ armed /\ zone = "NONE" /\ ARM_DELAY_MS = 500
  /\ quietSince + HoldMs + MinAdvance <= MaxTime
  /\ now - quietSince >= HoldMs

\* C7 as stated: the driver is enabled exactly when ARMED and the zone of
\* the most recent control tick is not STOP, or is STOP with the disable
\* delay not yet elapsed.
C7_Original ==
  zone # "NONE" =>
    ((enablePin = LOW) <=>
       (armed /\ (zone # "STOP"
                  \/ lastControlUpdate - disableStart < DISABLE_DELAY_MS)))

\* C7 (amended): the driver is enabled exactly when ARMED, some control tick
\* has classified HOLD or THROTTLE, and the most recent tick is not STOP or
\* is a STOP tick at which less than DISABLE_DELAY_MS had elapsed since the
\* first tick of its STOP run.
C7_EnableIff ==
  (enablePin = LOW) <=>
    (armed /\ driven
       /\ (zone \in {"HOLD", "THROTTLE"}
            \/ (zone = "STOP" /\ stopSince # 0
                  /\ lastControlUpdate - stopSince < DISABLE_DELAY_MS)))

C7_Witness ==
  armed /\ driven /\ zone = "STOP" /\ enablePin = LOW /\ now > stopSince

\* C8: in a run of STOP ticks the driver is switched off, and stop() is
\* commanded, at the first tick at which DISABLE_DELAY_MS has elapsed since
\* the first tick of the run, not before, and it stays off until a HOLD or
\* THROTTLE tick.
C8_DisableAfterDelay ==
  [][armed =>
       /\ (inDeadband' =>
             IF stopSince # 0 /\ now' - stopSince >= DISABLE_DELAY_MS
             THEN enablePin' = HIGH /\ CalledNext("stop")
             ELSE enablePin' = enablePin /\ ~CalledNext("stop"))
       /\ ((enablePin = HIGH /\ ~inHold' /\ ~running') =>
             enablePin' = HIGH)]_vars

C8_Witness ==
  /\ armed /\ driven /\ inDeadband /\ enablePin = HIGH /\ Called("stop")
  /\ now - stopSince = DISABLE_DELAY_MS

\* C9: every HOLD or THROTTLE tick sets the disable timer to unset and
\* enables the driver; the driver is switched off only by a STOP tick that
\* finds DISABLE_DELAY_MS elapsed since the first tick of its own STOP run.
C9_DriveTickCancels ==
  [][armed =>
       /\ ((inHold' \/ running') => disableStart' = 0 /\ enablePin' = LOW)
       /\ ((enablePin = LOW /\ enablePin' = HIGH) =>
             /\ inDeadband'
             /\ stopSince # 0
             /\ disableStart = stopSince
             /\ now' - stopSince >= DISABLE_DELAY_MS)]_vars

C9_Witness ==
  /\ cancelled /\ zone = "STOP" /\ enablePin = HIGH /\ Called("stop")
  /\ now - stopSince = DISABLE_DELAY_MS

\* C10 as stated: every iteration of loop(), UNARMED ones included, calls
\* the generator's run() exactly once.
C10_Original == calls # <<>> => RunCount(calls) = 1

\* C10 (amended): an iteration that starts ARMED calls run() exactly once,
\* whether or not its control tick fires; an iteration that starts UNARMED
\* returns before run() and does not call it.
C10_RunOncePerArmedLoop ==
  [][IF armed THEN RunCount(calls') = 1 ELSE RunCount(calls') = 0]_vars

C10_Witness ==
  armed /\ zone # "NONE" /\ ~inDeadband /\ ~inHold /\ ~running
        /\ calls = <<"run">>

\* C11: the zone of a control tick is a function of the rescaled input
\* alone: at or below ANALOG_DEADBAND_COUNTS it is STOP, above it and at or
\* below HOLD_BAND_COUNTS it is HOLD, above HOLD_BAND_COUNTS it is THROTTLE;
\* the two-zone sketch gives STOP at or below the deadband and THROTTLE
\* above.  A threshold value belongs to the lower zone, one count more to
\* the upper zone, and the same input gives the same zone again.
C11_ZoneOfScaled ==
  probe.fn = "classified" =>
    /\ (probe.scaled <= ANALOG_DEADBAND_COUNTS =>
          probe.zone = "STOP" /\ probe.zone2 = "STOP")
    /\ (probe.scaled >= ANALOG_DEADBAND_COUNTS + 1 =>
          probe.zone # "STOP" /\ probe.zone2 = "THROTTLE")
    /\ (probe.scaled <= HOLD_BAND_COUNTS => probe.zone # "THROTTLE")
    /\ (probe.scaled >= HOLD_BAND_COUNTS + 1 => probe.zone = "THROTTLE")
    /\ probe.zone \in {"STOP", "HOLD", "THROTTLE"}

C11_Witness ==
  /\ probe.fn = "classified"
  /\ probe.scaled = HOLD_BAND_COUNTS
  /\ probe.zone = "HOLD" /\ probe.zone2 = "THROTTLE"

\* clamp(s, lo, hi) of the documentation
Clamp(x, lo, hi) == IF x < lo THEN lo ELSE IF x > hi THEN hi ELSE x

Shipped == <<ANALOG_MIN_COUNTS, ANALOG_MAX_COUNTS>>

\* C12: for calibration bounds min < max, normalizeADC(s) is
\* (clamp(s, min, max) - min) / (max - min), and 1 minus that when the sense
\* is reversed; with the shipped bounds 10 and 1010 and no reversal every
\* sample <= 10 gives 0.0, every sample >= 1010 gives 1.0, and the result
\* is in [0, 1] for every sample of the ADC range.  The function as loop()
\* calls it is the shipped case.
C12_NormalizeLinear ==
  (probe.fn = "normalized" /\ probe.cal[1] < probe.cal[2]) =>
    LET mn == probe.cal[1]
        mx == probe.cal[2]
        c == Clamp(probe.raw, mn, mx) - mn
        want == IF probe.rev THEN (mx - mn) - c ELSE c
    IN  /\ ~probe.u.nan
        /\ probe.u.den > 0
        /\ probe.u.num * (mx - mn) = want * probe.u.den
        /\ 0 <= probe.u.num /\ probe.u.num <= probe.u.den
        /\ (probe.cal = Shipped /\ ~probe.rev) =>
              /\ (probe.raw <= 10 => probe.u.num = 0)
              /\ (probe.raw >= 1010 => probe.u.num = probe.u.den)
        /\ (probe.cal = Shipped /\ probe.rev = ANALOG_REVERSED) =>
              /\ probe.u.den = CalSpan
              /\ probe.inLoop = probe.u.num

C12_Witness ==
  /\ probe.fn = "normalized" /\ probe.cal = Shipped /\ probe.rev
  /\ probe.raw = 5 /\ probe.u.num = probe.u.den

\* C13: for every raw sample and every pair of calibration bounds, inverted
\* (min > max) and degenerate (min = max) ones included, normalizeADC gives
\* a defined value in [0, 1], and the scaled value the tick classifies is
\* in the ADC range.
C13_NormalizeDefined ==
  probe.fn = "normalized" =>
    /\ ~probe.u.nan
    /\ 0 <= probe.u.num /\ probe.u.num <= probe.u.den
    /\ probe.scaled \in 0..ADC_FULL_SCALE

\* applyCurve of the filtered input a tick uses, in 1/10000, for the filter
\* buffer f
ShapedU(f) == applyCurve((normalizeADC(getAverage(f)) * FixOne) \div CalSpan)

\* C14: every THROTTLE tick advances the virtual position by exactly
\* shapedU * MAX_SPEED_SPS / CONTROL_HZ; with 4000 steps/s, 100 Hz and
\* shapedU = 1.0 that is 40 steps per tick, and n consecutive such ticks
\* advance it by 40 * n steps: 4000 steps after 100 ticks.  (The virtual
\* position is kept in 1/1000 step.)
C14_TickAdvance ==
  [][/\ running' =>
          virtualPos' - virtualPos =
            (ShapedU(filter') * (MAX_SPEED_SPS \div CONTROL_HZ) * 1000)
               \div FixOne
     /\ (running' /\ ShapedU(filter') = FixOne) =>
          virtualPos' - virtualPos = 40 * 1000
     /\ (probe'.fn = "run" /\ probe'.ticks > 0) =>
          virtualPos' - probe'.base = probe'.ticks * 40 * 1000]_vars

C14_Witness ==
  /\ probe.fn = "run" /\ probe.ticks = 100 /\ running
  /\ virtualPos - probe.base = 4000 * 1000

\* C15: for the linear, the quadratic and the logarithmic curve (k > 0),
\* applyCurve maps 0 to 0 and 1 to 1 and never decreases on [0, 1]: the
\* result stays in [0, 1] and the next input above never gives a smaller
\* result.
C15_CurveMonotone ==
  probe.fn = "curved" =>
    /\ (probe.n = 0 => probe.out = 0)
    /\ (probe.n = CalSpan => probe.out = FixOne)
    /\ 0 <= probe.out /\ probe.out <= FixOne
    /\ probe.out <= probe.outUp

C15_Witness ==
  /\ probe.fn = "curved" /\ probe.kind = 2 /\ probe.k = LOG_CURVE_K
  /\ probe.n = CalSpan - 1
  /\ probe.out < probe.outUp /\ probe.outUp = FixOne

\* C16: while ARMED and the zone of the most recent control tick is
\* THROTTLE, the LED is ON after every iteration of loop(), the iterations
\* between two control ticks included.
C16_SolidOn == (armed /\ zone = "THROTTLE") => ledPin = HIGH

\* C17: while UNARMED the LED is a 1 Hz square wave driven by elapsed time:
\* at an iteration that leaves the controller UNARMED the level toggles
\* exactly when at least 500 ms have passed since the previous toggle (since
\* start-up for the first one), and it does not change at any other
\* iteration, however irregularly loop() is called.
C17_UnarmedBlink ==
  [][~armed' =>
       /\ (ledPin' # ledPin) <=> (now' - lastLED >= 500)
       /\ lastLED' = (IF ledPin' # ledPin THEN now' ELSE lastLED)
       /\ ledPin' = ledState']_vars

C17_Witness ==
  /\ ~armed /\ ledPin = LOW /\ lastLED >= 1000 /\ now > lastLED
  /\ now - lastLED < 500

\* C18: while ARMED and the zone of the most recent control tick is STOP,
\* the LED after each iteration of loop() is ON exactly when now mod 1000
\* is in [0, 100) or in [200, 300), in every iteration and not only in
\* those that run a control tick.
C18_DoubleBlink ==
  (armed /\ zone = "STOP") =>
    (ledPin = HIGH <=>
       (now % 1000 < 100 \/ (now % 1000 >= 200 /\ now % 1000 < 300)))

\* C19 as stated: a raw sample is added to the moving-average filter only on
\* control ticks, at most once per controlInterval; an iteration of the
\* armed loop between two ticks leaves the filter contents alone.
C19_Original ==
  [][(armed /\ filter' # filter) =>
       now' - lastControlUpdate >= controlInterval]_vars

\* C19 (amended): every iteration of loop(), unarmed or armed, tick or not,
\* reads a raw sample and adds it to the filter, dropping the oldest one;
\* what is limited to the control rate is the use of the filtered value:
\* a zone is classified only by an armed iteration that finds at least
\* controlInterval elapsed since the previous tick, and that iteration
\* becomes the previous tick.
C19_SampleEveryLoop ==
  [][/\ rawADC' = filter'[Len(filter')]
     /\ \A i \in 1..(Len(filter) - 1) : filter'[i] = filter[i + 1]
     /\ (inDeadband' \/ inHold' \/ running' \/ zone' # zone
           \/ lastControlUpdate' # lastControlUpdate) =>
          /\ armed
          /\ now' - lastControlUpdate >= controlInterval
          /\ lastControlUpdate' = now']_vars

C19_Witness ==
  /\ armed /\ zone = "STOP" /\ now = lastControlUpdate
  /\ ~inDeadband
  /\ \A i \in DOMAIN filter : filter[i] = 1023

\* C20: when a THROTTLE tick follows a period in which the drive was
\* disabled by a STOP run that outlasted the disable delay, the virtual
\* position has been brought back to the generator's achieved position: the
\* target of that tick is ahead of the position by no more than the tick's
\* own advance.
C20_ResyncOnEnable ==
  [][(armed /\ driven /\ stopSince # 0 /\ enablePin = HIGH /\ running') =>
       virtualPos' - 1000 * stepper.pos <= virtualPos' - virtualPos]_vars

\* C21: every control tick that classifies HOLD while ARMED enables the
\* driver, sets the generator's target to the generator's own achieved
\* position as it is when the tick runs (nothing is left to go) and leaves
\* the virtual position unchanged.
C21_HoldPinsTarget ==
  [][(armed /\ inHold') =>
       /\ enablePin' = LOW
       /\ CalledNext("moveTo")
       /\ stepper'.target = stepper.pos
       /\ virtualPos' = virtualPos]_vars

C21_Witness ==
  /\ armed /\ inHold /\ enablePin = LOW /\ Called("moveTo")
  /\ virtualPos >= 2000
  /\ stepper.target = stepper.pos /\ stepper.pos = 1

\* C22: the virtual position changes only in a control tick that classifies
\* THROTTLE while ARMED: UNARMED iterations, iterations between two ticks,
\* STOP ticks and HOLD ticks leave it as it is.  It therefore never
\* advances in a step that ends with the driver disabled, and it never
\* decreases.
C22_OnlyThrottleAdvances ==
  [][/\ (virtualPos' # virtualPos) =>
          /\ armed /\ running'
          /\ now' - lastControlUpdate >= controlInterval
          /\ lastControlUpdate' = now'
          /\ enablePin' = LOW
     /\ (~armed \/ inDeadband' \/ inHold' \/ lastControlUpdate' # now') =>
          virtualPos' = virtualPos
     /\ virtualPos' >= virtualPos]_vars

C22_Witness ==
  /\ armed /\ inDeadband /\ enablePin = HIGH /\ virtualPos > 0
  /\ now - stopSince >= DISABLE_DELAY_MS

\* C23: an ARMED iteration of loop() that finds less than controlInterval
\* ms elapsed since the last control tick classifies no zone and leaves the
\* driver enable output, the disable timer, lastControlUpdate, the virtual
\* position and the generator's target unchanged; two consecutive control
\* ticks are therefore at least controlInterval ms apart.
C23_GatedTick ==
  [][/\ (armed /\ now' - lastControlUpdate < controlInterval) =>
          /\ ~inDeadband' /\ ~inHold' /\ ~running'
          /\ zone' = zone
          /\ enablePin' = enablePin
          /\ disableStart' = disableStart
          /\ lastControlUpdate' = lastControlUpdate
          /\ virtualPos' = virtualPos
          /\ stepper'.target = stepper.target
          /\ ~CalledNext("moveTo") /\ ~CalledNext("stop")
     /\ (inDeadband' \/ inHold' \/ running'
           \/ lastControlUpdate' # lastControlUpdate) =>
          /\ lastControlUpdate' = now'
          /\ lastControlUpdate' - lastControlUpdate >= controlInterval]_vars

C23_Witness ==
  /\ armed /\ zone = "STOP" /\ ~inDeadband
  /\ now - lastControlUpdate = controlInterval - 1
  /\ rawADC = 1023 /\ getAverage(filter) = 1023
  /\ enablePin = HIGH /\ virtualPos = 0

\* C24: the effective arming hold is max(ARM_DELAY_MS, 250) ms for every
\* configured ARM_DELAY_MS, values above 32767 included: the controller
\* never arms before a run of samples at or below the deadband has lasted
\* that long.
C24_LongDelayKept ==
  [][(~armed /\ armed') =>
       quietSince # 0 /\ now' - quietSince >= HoldMs]_vars

\* C25: the virtual position is at most (MAX_SPEED_SPS / CONTROL_HZ) *
\* (1 + floor(t / controlInterval)) steps, t being the time in ms since the
\* first control tick after arming: the commanded average velocity never
\* exceeds MAX_SPEED_SPS in real time, however irregularly loop() is
\* called.  Before the first tick the virtual position is 0.
C25_VelocityBound ==
  /\ probe.fn = "none" => virtualPos = 0
  /\ probe.fn = "firstTick" =>
        virtualPos <=
          (MAX_SPEED_SPS \div CONTROL_HZ) * 1000
             * (1 + (now - probe.at) \div controlInterval)

C25_Witness ==
  /\ probe.fn = "firstTick" /\ running
  /\ now - probe.at = 2 * controlInterval - 1
  /\ virtualPos > (MAX_SPEED_SPS \div CONTROL_HZ) * 1000
  /\ getAverage(filter) = 1023

\* C26: in every ARMED state the disable timer is set (non-zero) exactly
\* when the most recent control tick classified STOP: it is unset at arming
\* and after every HOLD or THROTTLE tick, and while set it holds millis()
\* of the first tick of the current uninterrupted run of STOP ticks; later
\* STOP ticks of the run do not restart it.
C26_TimerIffStop ==
  /\ ~armed => disableStart = 0
  /\ armed =>
       /\ (disableStart # 0) <=> (zone = "STOP")
       /\ (zone \in {"NONE", "HOLD", "THROTTLE"}) => disableStart = 0
       /\ (zone = "STOP") => disableStart = stopSince

C26_Witness ==
  /\ armed /\ driven /\ zone = "STOP" /\ inDeadband
  /\ disableStart = stopSince
  /\ now = disableStart + DISABLE_DELAY_MS \div 2
  /\ enablePin = LOW

====
